---- MODULE Spec2Model ----
(***************************************************************************)
(* The tic-tac-toe Board component of src/src/App.js.                      *)
(*                                                                         *)
(* JavaScript arrays are objects on a heap: a component holds a reference  *)
(* to an array, `slice` allocates a new array, and an indexed assignment   *)
(* writes into the array a reference points to.  An array is modelled as   *)
(* a record [length, props]: `props` maps the keys that are present        *)
(* (array indices and, for a negative key, an ordinary property) to their  *)
(* values; a key that is absent reads as undefined (a hole).               *)
(*                                                                         *)
(* React runs a click handler to completion, commits the state it set and  *)
(* re-renders the component before it dispatches the next click (click is  *)
(* a discrete event), so one click is one step of the model.               *)
(***************************************************************************)
EXTENDS Integers, Sequences, FiniteSets, TLC

VARIABLES heap, hook, squares, view, last, clicked

vars == <<heap, hook, squares, view, last, clicked>>

\* ------------------------------------------------------------------------
\* Values

\* Array(9): the number of cells of the board.
NumSquares == 9

\* Largest index a direct call of handleClick is tried with (SpecCall).
MaxIndex == 10

Null == "null"
Undefined == "undefined"
X == "X"
O == "O"

Indices == 0..(NumSquares - 1)

\* Indices that no Square of the component carries.
OutOfRange == {-1} \cup (NumSquares..MaxIndex)

\* Addresses of arrays.  An array the component no longer references is
\* garbage and its address is reused by the next allocation.
Refs == {"a0", "a1"}
NoRef == "none"

NoError == "none"

\* ------------------------------------------------------------------------
\* JavaScript arrays

\* Array(9).fill(null)
ArrayFill(n, v) == [length |-> n, props |-> [k \in 0..(n - 1) |-> v]]

\* a[k]
Get(a, k) == IF k \in DOMAIN a.props THEN a.props[k] ELSE Undefined

\* a[k] = v : an index at or beyond length grows the array; a negative key
\* is an ordinary property and leaves length alone.  Never throws.
ArraySet(a, k, v) ==
  [length |-> IF k >= a.length THEN k + 1 ELSE a.length,
   props  |-> [j \in (DOMAIN a.props) \cup {k} |-> IF j = k THEN v ELSE a.props[j]]]

\* a.slice() : a new array of the same length holding the elements at the
\* indices 0..length-1 that are present (holes stay holes); properties that
\* are not array indices are not copied.
slice(a) ==
  [length |-> a.length,
   props  |-> [j \in (DOMAIN a.props) \cap (0..(a.length - 1)) |-> a.props[j]]]

\* The address a new array is allocated at: one the component does not hold.
NewRef(held) == CHOOSE r \in Refs : r # held

\* ------------------------------------------------------------------------
\* handleClick

\* Variants of handleClick with one plausible slip each.

\* writes into the array it was given instead of a copy
handleClick_inplace(h, sq, index) ==
  [heap       |-> [h EXCEPT ![sq] = ArraySet(h[sq], index, X)],
   setSquares |-> sq,
   error      |-> NoError]

\* starts from a new empty board instead of a copy of the current one
handleClick_fresh(h, sq, index) ==
  LET nextSquares == NewRef(sq)
  IN  [heap       |-> [h EXCEPT ![nextSquares] = ArraySet(ArrayFill(NumSquares, Null), index, X)],
       setSquares |-> nextSquares,
       error      |-> NoError]

\* writes one cell too far
handleClick_offbyone(h, sq, index) ==
  LET nextSquares == NewRef(sq)
  IN  [heap       |-> [h EXCEPT ![nextSquares] = ArraySet(slice(h[sq]), index + 1, X)],
       setSquares |-> nextSquares,
       error      |-> NoError]

\* clears a cell that is already marked
handleClick_toggle(h, sq, index) ==
  LET nextSquares == NewRef(sq)
      v == IF Get(h[sq], index) = X THEN Null ELSE X
  IN  [heap       |-> [h EXCEPT ![nextSquares] = ArraySet(slice(h[sq]), index, v)],
       setSquares |-> nextSquares,
       error      |-> NoError]

\* rejects a cell that is already marked
handleClick_guarded(h, sq, index) ==
  LET nextSquares == NewRef(sq)
  IN  IF Get(h[sq], index) = X
      THEN [heap |-> h, setSquares |-> NoRef, error |-> "Occupied"]
      ELSE [heap       |-> [h EXCEPT ![nextSquares] = ArraySet(slice(h[sq]), index, X)],
            setSquares |-> nextSquares,
            error      |-> NoError]

\* alternates the two players' symbols
handleClick_turns(h, sq, index) ==
  LET nextSquares == NewRef(sq)
      n == Cardinality({k \in DOMAIN h[sq].props : h[sq].props[k] # Null})
      v == IF n % 2 = 0 THEN X ELSE O
  IN  [heap       |-> [h EXCEPT ![nextSquares] = ArraySet(slice(h[sq]), index, v)],
       setSquares |-> nextSquares,
       error      |-> NoError]

\* returns early once the board is full
handleClick_terminal(h, sq, index) ==
  LET nextSquares == NewRef(sq)
  IN  IF \A k \in Indices : Get(h[sq], k) # Null
      THEN [heap |-> h, setSquares |-> NoRef, error |-> NoError]
      ELSE [heap       |-> [h EXCEPT ![nextSquares] = ArraySet(slice(h[sq]), index, X)],
            setSquares |-> nextSquares,
            error      |-> NoError]

\* function handleClick(index), run with `squares` bound to the array at
\* address sq of heap h.  The result is the heap after the call, the
\* reference handed to setSquares (NoRef if it is not called) and the
\* exception thrown (NoError if none).
\*   const nextSquares = squares.slice();
\*   nextSquares[index] = "X";
\*   setSquares(nextSquares);
handleClick(h, sq, index) ==
  LET nextSquares == NewRef(sq)
      h1 == [h EXCEPT ![nextSquares] = slice(h[sq])]
      h2 == [h1 EXCEPT ![nextSquares] = ArraySet(h1[nextSquares], index, X)]
  IN  [heap       |-> h2,
       setSquares |-> nextSquares,
       error      |-> NoError]

\* The board value a click installs, as a function of the board value the
\* handler starts from.
markCell(board, index) ==
  LET sq == CHOOSE r \in Refs : TRUE
      r  == handleClick([a \in Refs |-> board], sq, index)
  IN  IF r.setSquares = NoRef THEN board ELSE r.heap[r.setSquares]

\* ------------------------------------------------------------------------
\* Rendering

\* A layout with a repeated index in the last row.
Rows_typo == << <<0, 1, 2>>, <<3, 4, 5>>, <<6, 7, 7>> >>

\* The three board-row lists of the returned JSX.
Rows == << <<0, 1, 2>>, <<3, 4, 5>>, <<6, 7, 8>> >>

RECURSIVE Flatten(_)
Flatten(rows) == IF rows = << >> THEN << >> ELSE Head(rows) \o Flatten(Tail(rows))

\* <Square value={squares[val]} onSquareClick={() => handleClick(val)}/>
Square(value, onSquareClick) == [value |-> value, onSquareClick |-> onSquareClick]

\* The Squares one render of Board produces, in document order.
Board(h, sq) ==
  LET vals == Flatten(Rows)
  IN  [k \in 1..Len(vals) |-> Square(Get(h[sq], vals[k]), vals[k])]

\* ------------------------------------------------------------------------
\* State machine

Init ==
  LET initial == CHOOSE r \in Refs : TRUE
  IN  /\ heap = [r \in Refs |-> ArrayFill(NumSquares, Null)]
      /\ hook = initial
      /\ squares = initial
      /\ view = Board(heap, initial)
      /\ last = [op |-> "init", square |-> 0, index |-> 0, inputRef |-> initial,
                 input |-> ArrayFill(NumSquares, Null), called |-> FALSE,
                 error |-> NoError]
      /\ clicked = {}

\* The same step with the handlers of the first render kept: the closure
\* goes on reading the array it captured then.
Dispatch_stale(op, k, index) ==
  LET r == handleClick(heap, squares, index)
      set == r.error = NoError /\ r.setSquares # NoRef
      nextHook == IF set THEN r.setSquares ELSE hook
  IN  /\ heap' = r.heap
      /\ hook' = nextHook
      /\ squares' = squares
      /\ view' = IF nextHook # hook THEN Board(r.heap, nextHook) ELSE view
      /\ last' = [op |-> op, square |-> k, index |-> index, inputRef |-> squares,
                  input |-> heap[squares], called |-> set, error |-> r.error]
      /\ clicked' = IF op = "click" THEN clicked \cup {index} ELSE clicked

\* One invocation of handleClick(index) by the closure of the last render,
\* followed by React's commit of the state it set and the re-render.
\* setSquares with the reference already held is a no-op (Object.is): the
\* component is not rendered again.  An exception leaves the state alone.
Dispatch(op, k, index) ==
  LET r == handleClick(heap, squares, index)
      set == r.error = NoError /\ r.setSquares # NoRef
      nextHook == IF set THEN r.setSquares ELSE hook
  IN  /\ heap' = r.heap
      /\ hook' = nextHook
      /\ squares' = nextHook
      /\ view' = IF nextHook # hook THEN Board(r.heap, nextHook) ELSE view
      /\ last' = [op |-> op, square |-> k, index |-> index, inputRef |-> squares,
                  input |-> heap[squares], called |-> set, error |-> r.error]
      /\ clicked' = IF op = "click" THEN clicked \cup {index} ELSE clicked

\* The user clicks the k-th Square on screen: its onSquareClick runs.
Click(k) == Dispatch("click", k, view[k].onSquareClick)

\* handleClick called with an integer no Square carries, as
\* markCell(board, 9) or markCell(board, -1).
Call(index) == Dispatch("call", 0, index)

Next == \E k \in DOMAIN view : Click(k)

Spec == Init /\ [][Next]_vars

NextCall ==
  \/ \E k \in DOMAIN view : Click(k)
  \/ \E index \in OutOfRange : Call(index)

SpecCall == Init /\ [][NextCall]_vars

\* The current board value.
board == heap[squares]

Marked(a) == {k \in Indices : Get(a, k) = X}

Full(a) == \A k \in Indices : Get(a, k) # Null

\* ------------------------------------------------------------------------
\* Properties

\* C1: after a click on index i of a 9-cell board, the current board holds
\* "X" in cell i and every other cell holds the value it had before.
ClickMarksOneCell ==
  last.op = "click" =>
    /\ last.index \in Indices
    /\ Get(board, last.index) = X
    /\ \A j \in Indices \ {last.index} : Get(board, j) = Get(last.input, j)

ClickMarksOneCellWitness ==
  /\ last.op = "click"
  /\ last.index = 4
  /\ Get(last.input, 4) = Null
  /\ Marked(last.input) = {0, 8}
  /\ Marked(board) = {0, 4, 8}

\* C2: the array the handler was given still holds the values it held
\* before the call; the write went into a different, new array, which is
\* the one now installed as the state.
InputNotMutated ==
  last.op = "click" =>
    /\ heap[last.inputRef] = last.input
    /\ squares # last.inputRef
    /\ hook = squares
    /\ Get(board, last.index) = X

InputNotMutatedWitness ==
  /\ last.op = "click"
  /\ Get(last.input, last.index) = Null
  /\ Get(heap[last.inputRef], last.index) = Null
  /\ Get(board, last.index) = X
  /\ Marked(last.input) # {}

\* C3: in every state reached by clicks the board has exactly the 9 cells
\* 0..8: its length is 9 and no other key is present.
BoardHasNineCells ==
  /\ board.length = NumSquares
  /\ DOMAIN board.props = Indices

BoardHasNineCellsWitness ==
  /\ last.op = "click"
  /\ last.index = NumSquares - 1
  /\ Cardinality(Marked(board)) >= 3
  /\ board.length = NumSquares

\* C4: a call with an index outside 0..8 fails with IndexOutOfRange, sets
\* no state, and leaves the board that was current before as the current
\* board with its cells unchanged.
OutOfRangeRejected ==
  (last.op = "call" /\ last.index \notin Indices) =>
    /\ last.error = "IndexOutOfRange"
    /\ ~last.called
    /\ squares = last.inputRef
    /\ board = last.input

\* C5: every click is committed and rendered before the next one is
\* handled, so no mark is lost: the handlers read the state that is
\* current, the screen shows it, and the board holds "X" exactly at the
\* indices clicked so far and is empty everywhere else.
NoMarkLost ==
  /\ squares = hook
  /\ view = Board(heap, hook)
  /\ Marked(board) = clicked
  /\ \A k \in Indices \ clicked : Get(board, k) = Null

NoMarkLostWitness ==
  /\ last.op = "click"
  /\ last.index \notin Marked(last.input)
  /\ Cardinality(Marked(last.input)) >= 1
  /\ Marked(board) = Marked(last.input) \cup {last.index}
  /\ clicked = Marked(board)

\* C6: marking the same cell twice gives the board that marking it once
\* gives; a click on a cell that already holds "X" raises no error and
\* leaves every cell value as it was.
ClickIdempotent ==
  /\ \A i \in Indices : markCell(markCell(board, i), i) = markCell(board, i)
  /\ (last.op = "click" /\ Get(last.input, last.index) = X) =>
       /\ last.error = NoError
       /\ last.called
       /\ \A k \in Indices : Get(board, k) = Get(last.input, k)

ClickIdempotentWitness ==
  /\ last.op = "click"
  /\ Get(last.input, last.index) = X
  /\ board = last.input
  /\ ~Full(board)

\* C7: the board starts with all 9 cells null, and every cell of every
\* reachable board, and every value shown, is null or "X".
OnlyXOrEmpty ==
  /\ last.op = "init" => \A k \in Indices : Get(board, k) = Null
  /\ \A k \in DOMAIN board.props : board.props[k] \in {Null, X}
  /\ \A k \in DOMAIN view : view[k].value \in {Null, X}

OnlyXOrEmptyWitness ==
  /\ last.op = "click"
  /\ Cardinality(Marked(board)) >= 2
  /\ \E k \in Indices : Get(board, k) = Null

\* C8: there is no terminal state: every Square can be clicked in every
\* state, every click sets the state without error, and a click on the
\* full board installs a board with the same 9 values.
NoTerminalState ==
  /\ \A k \in 1..NumSquares : ENABLED Click(k)
  /\ last.op = "click" =>
       /\ last.called
       /\ last.error = NoError
       /\ Get(board, last.index) = X
  /\ (last.op = "click" /\ Full(last.input)) => board = last.input

NoTerminalStateWitness ==
  /\ last.op = "click"
  /\ Full(last.input)
  /\ last.called
  /\ Full(board)

\* C9: a cell that holds "X" holds "X" in the next state, whatever the
\* step: the set of marked cells never shrinks.
MarksAccumulate ==
  [][\A k \in Indices : Get(board, k) = X => Get(board', k) = X]_vars

MarksAccumulateWitness ==
  /\ last.op = "click"
  /\ \E j \in Indices \ {last.index} : Get(last.input, j) = X /\ Get(board, j) = X
  /\ Get(last.input, last.index) = Null

\* C10: the 9 Squares are wired to the cells one-to-one in row-major order:
\* the k-th Square shows cell k-1 and its click calls handleClick(k-1), the
\* rows are {0,1,2}, {3,4,5}, {6,7,8}, and a click marks the cell of the
\* Square that was clicked, always an index in 0..8.
WiringRowMajor ==
  /\ Len(view) = NumSquares
  /\ \A r \in DOMAIN Rows : \A c \in DOMAIN Rows[r] :
       Rows[r][c] = (r - 1) * Len(Rows[r]) + (c - 1)
  /\ \A k \in DOMAIN view :
       /\ view[k].onSquareClick = k - 1
       /\ view[k].value = Get(board, k - 1)
  /\ \A i \in Indices : Cardinality({k \in DOMAIN view : view[k].onSquareClick = i}) = 1
  /\ last.op = "click" =>
       /\ last.index \in Indices
       /\ last.index = last.square - 1
       /\ view[last.square].value = X

WiringRowMajorWitness ==
  /\ last.op = "click"
  /\ last.square = NumSquares
  /\ last.index = NumSquares - 1
  /\ Get(last.input, last.index) = Null
  /\ view[last.square].value = X

====
